---- MODULE Spec2Model ----
(***************************************************************************)
(* Model of the two cross-validation engines of the repository:           *)
(*   MyGridSearchCV       (grid search notebook, class at lines 108-219)   *)
(*   MyStackingClassifier (stacking_classification.ipynb, lines 214-302)   *)
(* Estimators are objects with identity (entries of heap).  The pluggable  *)
(* estimator is a stub classifier on one integer feature: it predicts 1    *)
(* iff the feature exceeds its threshold, and, when memorize = 1, returns  *)
(* the training label of a feature value seen in its last fit.  Thresholds *)
(* are stored doubled (1, 3, 5 stand for 0.5, 1.5, 2.5).  Any fit call of  *)
(* an estimator may raise.  Scores are exact rationals, stored as integer  *)
(* multiples of 1 / (n! * n!).                                             *)
(***************************************************************************)
EXTENDS Integers, Sequences, FiniteSets

\* ----------------------------------------------------------------- bounds
NRows == 3
MaxCv == 5
MaxRows == 4

\* float("-inf"); every score is >= 0
NegInf == -1

None == <<>>
Some(x) == <<x>>

VARIABLES
    engine,           \* "gs" | "st": the object this behaviour exercises
    heap,             \* estimator objects, by identity (index)
    kf_perm,          \* the permutation KFold's shuffle yields for the seed
    fit_budget,       \* fit calls the caller makes on the object
    call_budget,      \* predict / score calls the caller makes after them
    cv_kind,          \* "int": cv is a fold count; else the caller's splitter
    split_calls,      \* split calls made on KFold objects so far
    twin,             \* what an earlier object returned on the same inputs
    \* MyGridSearchCV: attributes
    param_grid, gs_cv, best_estimator_, best_params_, best_score_,
    \* MyGridSearchCV.fit: frame
    gs_pc, gs_y, param_combinations, gs_ci, params, gs_estimator, scores,
    gs_folds,
    \* MyGridSearchCV: what the caller saw, and the history of the fit call
    gs_result, gs_out, gs_calls, gs_trace, gs_folds_used, gs_refit_done,
    \* MyStackingClassifier: attributes
    estimators, final_estimator, st_cv, base_estimators_, final_estimator_,
    \* MyStackingClassifier.fit: frame
    st_pc, st_y, st_i, meta_features, oof_preds, st_folds,
    \* MyStackingClassifier: what the caller saw, and the history of the call
    st_result, st_out, st_calls, st_trace, oof_src, meta_src, st_fit_done,
    st_folds_used

gsVars == <<param_grid, gs_cv, best_estimator_, best_params_, best_score_,
            gs_pc, gs_y, param_combinations, gs_ci, params, gs_estimator,
            scores, gs_folds, gs_result, gs_out, gs_calls, gs_trace,
            gs_folds_used, gs_refit_done>>

stVars == <<estimators, final_estimator, st_cv, base_estimators_,
            final_estimator_, st_pc, st_y, st_i, meta_features, oof_preds,
            st_folds, st_result, st_out, st_calls, st_trace, oof_src,
            meta_src, st_fit_done, st_folds_used>>

\* what the caller fixes at construction and never changes
envVars == <<engine, kf_perm, fit_budget, call_budget, cv_kind>>

vars == <<envVars, heap, split_calls, twin, gsVars, stVars>>

\* ------------------------------------------------------------- arithmetic
RECURSIVE Fact(_)
Fact(n) == IF n <= 1 THEN 1 ELSE n * Fact(n - 1)

RECURSIVE SumSeq(_)
SumSeq(s) == IF s = <<>> THEN 0 ELSE Head(s) + SumSeq(Tail(s))

Min(a, b) == IF a < b THEN a ELSE b

Rows(n) == 1 .. n

\* feature of row r: X = [[0], [1], [2], ...]
X(r) == r - 1

Labelings(n) == [1 .. n -> {0, 1}]

\* the label vectors score is called with: all of one class, and the upper
\* half of the rows in class 1
ScoreLabelings(n) ==
    {[r \in 1 .. n |-> 0], [r \in 1 .. n |-> IF 2 * r > n THEN 1 ELSE 0]}

Perms(n) ==
    {p \in [1 .. n -> 1 .. n] : \A i, j \in 1 .. n : i # j => p[i] # p[j]}

\* -------------------------------------------------------------- estimator
\* The caller's unfitted estimator (SVC() in the notebook).
NewEstimator(th, mem) ==
    [kind |-> "base", threshold |-> th, memorize |-> mem, fitted |-> FALSE,
     train |-> {}, y |-> <<>>, mf |-> <<>>]

\* sklearn.base.clone: same parameters, nothing fitted.
clone(e) ==
    [e EXCEPT !.fitted = FALSE, !.train = {}, !.y = <<>>, !.mf = <<>>]

ParamNames == {"threshold", "memorize"}

\* a set_params that takes any name
ValidParamsAny(ps) == TRUE

\* BaseEstimator.set_params raises ValueError for a name that is not a
\* parameter of the estimator
ValidParams(ps) == \A i \in 1 .. Len(ps) : ps[i][1] \in ParamNames

RECURSIVE set_params(_, _)
set_params(e, ps) ==
    IF ps = <<>> THEN e
    ELSE LET p == Head(ps)
             e2 == IF p[1] = "threshold" THEN [e EXCEPT !.threshold = p[2]]
                   ELSE [e EXCEPT !.memorize = p[2]]
         IN set_params(e2, Tail(ps))

\* estimator.fit(X[idx], y[idx]) that returns normally
EstFit(e, idx, y) == [e EXCEPT !.fitted = TRUE, !.train = idx, !.y = y]

\* estimator.predict on one feature value
EstPredict(e, x) ==
    IF e.kind = "const" THEN 0
    ELSE IF e.memorize = 1 /\ \E r \in e.train : X(r) = x
    THEN e.y[CHOOSE r \in e.train : X(r) = x]
    ELSE IF 2 * x > e.threshold THEN 1 ELSE 0

\* an estimator that predicts class 0 for every row, whatever it is fitted on
NewConstantEstimator ==
    [kind |-> "const", threshold |-> 0, memorize |-> 0, fitted |-> FALSE,
     train |-> {}, y |-> <<>>, mf |-> <<>>]

\* a copy made by constructing a default estimator of the same class
DefaultCopy(e) == IF e.kind = "meta" THEN e ELSE NewEstimator(1, 0)

\* copy.deepcopy: the parameters and whatever the object has been fitted on
deepcopy(e) == e

\* The caller's unfitted meta-estimator: a majority vote over the columns,
\* in which the first column decides a tie.
NewMetaEstimator ==
    [kind |-> "meta", threshold |-> 0, memorize |-> 0, fitted |-> FALSE,
     train |-> {}, y |-> <<>>, mf |-> <<>>]

\* final_estimator_.fit(meta_features, y) that returns normally
MetaFit(e, mf, y) ==
    [e EXCEPT !.fitted = TRUE, !.train = DOMAIN mf, !.y = y, !.mf = mf]

\* final_estimator_.predict on one row of base predictions: the class most
\* columns vote for, and the vote of the first column when they are even
MetaPredict(e, feats) ==
    IF 2 * SumSeq(feats) > Len(feats) THEN 1
    ELSE IF 2 * SumSeq(feats) = Len(feats) THEN feats[1]
    ELSE 0

\* ------------------------------------------------------------------ KFold
\* KFold(n_splits = k, shuffle = True, random_state = seed).split(X): the
\* shuffled indices cut into k contiguous blocks, the first n % k of them one
\* longer; block f is the validation set of fold f.
FoldSize(n, k, f) == (n \div k) + (IF f <= n % k THEN 1 ELSE 0)

\* blocks that all start at a multiple of n div k: the remainder is ignored
FoldStartNoRemainder(n, k, f) == (f - 1) * (n \div k)

FoldStart(n, k, f) == (f - 1) * (n \div k) + Min(f - 1, n % k)

ValidIdx(perm, k, f) ==
    LET n == Len(perm)
    IN {perm[j] : j \in (FoldStart(n, k, f) + 1) ..
                        (FoldStart(n, k, f) + FoldSize(n, k, f))}

TrainIdx(perm, k, f) == Rows(Len(perm)) \ ValidIdx(perm, k, f)

KFoldSplit(perm, k) ==
    [f \in 1 .. k |-> [train |-> TrainIdx(perm, k, f),
                       valid |-> ValidIdx(perm, k, f)]]

\* a generator that is not seeded again: the calls-th shuffle differs
ShuffledIndicesAdvancing(perm, calls) ==
    [j \in 1 .. Len(perm) |-> perm[((j - 1 + calls) % Len(perm)) + 1]]

\* the shuffle of a KFold with an integer random_state: every split call
\* seeds a new generator, so the calls made before do not matter
ShuffledIndices(perm, calls) == perm

\* KFold.__init__ raises ValueError for n_splits <= 1
KFoldCtorRaises(k) == k <= 1

\* KFold.split raises ValueError for n_splits > n_samples
KFoldSplitRaises(k, n) == k > n

\* ---------------------------------------------------------------- scoring
\* accuracy_score(y[valid], y_pred) in units of 1 / n!
Accuracy(e, y, valid) ==
    Cardinality({r \in valid : EstPredict(e, X(r)) = y[r]})
        * (Fact(Len(y)) \div Cardinality(valid))

\* np.mean(scores) in units of 1 / (n! * n!)
Mean(ss, n) == SumSeq(ss) * (Fact(n) \div Len(ss))

\* a comparison that lets a later candidate of equal score replace the best
IsBetterOrEqual(best, avg) == best <= avg

\* no comparison at all: the candidate evaluated last is kept
IsBetterAlways(best, avg) == TRUE

\* self.best_score_ < avg_score
IsBetter(best, avg) == best < avg

\* the rows a fold's fit gets when it is handed X, y instead of X[train_idx]
FoldFitRowsAll(fold) == fold.train \cup fold.valid

\* X[train_idx], y[train_idx]: the rows a fold's fit call gets
FoldFitRows(fold) == fold.train

\* a final fit left out: the estimator keeps the rows of its last fold fit
FullFitRowsLastFold(n, last) == last

\* estimator.fit(X, y): the rows of the final fit of an estimator, whatever
\* it was last fitted on
FullFitRows(n, last) == Rows(n)

\* --------------------------------------------------------- grid: product
\* a product in which the first sequence varies fastest
RECURSIVE ProductFirstFastest(_)
ProductFirstFastest(vals) ==
    IF vals = <<>> THEN << <<>> >>
    ELSE LET h == Head(vals)
             rest == ProductFirstFastest(Tail(vals))
         IN [p \in 1 .. (Len(h) * Len(rest)) |->
                <<h[((p - 1) % Len(h)) + 1]>>
                    \o rest[((p - 1) \div Len(h)) + 1]]

\* itertools.product(*param_values): the last sequence varies fastest
RECURSIVE Product(_)
Product(vals) ==
    IF vals = <<>> THEN << <<>> >>
    ELSE LET h == Head(vals)
             rest == Product(Tail(vals))
         IN [p \in 1 .. (Len(h) * Len(rest)) |->
                <<h[((p - 1) \div Len(rest)) + 1]>>
                    \o rest[((p - 1) % Len(rest)) + 1]]

param_keys(grid) == [i \in 1 .. Len(grid) |-> grid[i][1]]

param_values(grid) == [i \in 1 .. Len(grid) |-> grid[i][2]]

\* dict(zip(param_keys, values))
ZipParams(keys, values) == [i \in 1 .. Len(keys) |-> <<keys[i], values[i]>>]

GridChoices ==
    { << <<"threshold", <<1, 3, 5>> >> >>,
      << <<"threshold", <<1, 3>> >>, <<"memorize", <<0, 1>> >> >>,
      << >>,
      << <<"threshold", << >> >> >>,
      << <<"threshold", <<1, 3>> >>, <<"gamma", <<1>> >> >>,
      << <<"gamma", <<1>> >>, <<"threshold", << >> >> >> }

\* ------------------------------------------------------------ trace (ghost)
Event(ev, c, f, inst, ok) ==
    [ev |-> ev, c |-> c, f |-> f, inst |-> inst, ok |-> ok]

\* what a predict or score call gave: the input, the outcome, the estimator
\* it delegated to, and how many such calls were made since the last fit
Out(op, arg, res, inst, val, n) ==
    [op |-> op, arg |-> arg, res |-> res, inst |-> inst, val |-> val, n |-> n]

NoOut == Out("none", <<>>, "none", 0, <<>>, 0)

\* the feature matrix [[0], [1], ..., [n - 1]]
Features(n) == [r \in 1 .. n |-> X(r)]

\* ------------------------------------------------------------------- Init
GsFresh ==
    /\ best_estimator_ = 0
    /\ best_params_ = None
    /\ best_score_ = NegInf
    /\ gs_pc = "idle"
    /\ gs_y = <<>>
    /\ param_combinations = <<>>
    /\ gs_ci = 0
    /\ params = <<>>
    /\ gs_estimator = 0
    /\ scores = <<>>
    /\ gs_folds = <<>>
    /\ gs_result = "none"
    /\ gs_out = NoOut
    /\ gs_calls = 0
    /\ gs_trace = <<>>
    /\ gs_folds_used = <<>>
    /\ gs_refit_done = FALSE

StFresh ==
    /\ st_folds_used = <<>>
    /\ base_estimators_ = None
    /\ final_estimator_ = 0
    /\ st_pc = "idle"
    /\ st_y = <<>>
    /\ st_i = 0
    /\ meta_features = <<>>
    /\ oof_preds = <<>>
    /\ st_folds = <<>>
    /\ st_result = "none"
    /\ st_out = NoOut
    /\ st_calls = 0
    /\ st_trace = <<>>
    /\ oof_src = <<>>
    /\ meta_src = <<>>
    /\ st_fit_done = FALSE

\* MyGridSearchCV(estimator, param_grid, cv) on an unfitted estimator, by a
\* caller who makes that many predict or score calls after a fit
InitGS(calls) ==
    /\ engine = "gs"
    /\ \E mem \in {0, 1} : heap = <<NewEstimator(1, mem)>>
    /\ kf_perm \in Perms(NRows)
    /\ fit_budget = 1
    /\ call_budget = calls
    /\ split_calls = 0
    /\ cv_kind = "int"
    /\ twin = None
    /\ param_grid \in GridChoices
    /\ gs_cv \in 1 .. MaxCv
    /\ GsFresh
    /\ estimators = <<>>
    /\ final_estimator = 0
    /\ st_cv = 0
    /\ StFresh

\* the estimator lists a caller passes: objects 1 and 2 of the heap, also
\* none at all and the same object twice
EstimatorLists == {<<>>, <<1>>, <<1, 2>>, <<2, 2>>}

\* MyStackingClassifier(estimators, final_estimator, cv, random_state) on
\* unfitted estimators
InitST ==
    /\ engine = "st"
    /\ \E mem \in {0, 1} :
          heap = <<NewEstimator(1, mem), NewEstimator(3, mem),
                   NewMetaEstimator>>
    /\ kf_perm \in Perms(NRows)
    /\ fit_budget = 1
    /\ call_budget = 1
    /\ split_calls = 0
    /\ cv_kind = "int"
    /\ twin = None
    /\ estimators \in EstimatorLists
    /\ final_estimator = 3
    /\ st_cv \in 1 .. MaxCv
    /\ StFresh
    /\ param_grid = <<>>
    /\ gs_cv = 0
    /\ GsFresh

Init == InitGS(1) \/ InitST

\* --------------------------------------------------- MyGridSearchCV.fit
GsRaise(err) ==
    /\ gs_pc' = "idle"
    /\ gs_result' = err

\* lines 156-163: the candidates and the splitter; a KFold is constructed
\* only when cv is an integer
GsFitBegin(y) ==
    /\ engine = "gs"
    /\ gs_pc = "idle"
    /\ gs_calls < fit_budget
    /\ gs_calls' = gs_calls + 1
    /\ gs_y' = y
    /\ param_combinations' = Product(param_values(param_grid))
    /\ gs_trace' = <<>>
    /\ gs_folds_used' = <<>>
    /\ gs_out' = NoOut
    /\ gs_ci' = 1
    /\ IF cv_kind = "int" /\ KFoldCtorRaises(gs_cv)
       THEN GsRaise("ValueError")
       ELSE gs_pc' = "loop" /\ gs_result' = "running"
    /\ UNCHANGED stVars
    /\ UNCHANGED <<envVars, heap, split_calls, twin, param_grid, gs_cv,
                   best_estimator_, best_params_, best_score_, params,
                   gs_estimator, scores, gs_folds, gs_refit_done>>

\* self.estimator: the caller's estimator is the first object of the heap
SelfEstimator == 1

\* the prototype itself, with no clone made of it
CandidateEstimatorInPlace == SelfEstimator

\* line 167: estimator = clone(self.estimator) is a new object
CandidateEstimator == Len(heap) + 1

\* lines 167-168: the heap once the candidate's estimator has been made and
\* the parameters ps have been set on it
CandidateHeap(ps) ==
    IF CandidateEstimator > Len(heap)
    THEN Append(heap, set_params(clone(heap[SelfEstimator]), ps))
    ELSE [heap EXCEPT ![CandidateEstimator] =
                         set_params(heap[CandidateEstimator], ps)]

\* line 171: the shuffles a cv.split(X, y) call can give.  A KFold with an
\* integer random_state (the one fit builds, or the caller's) shuffles from
\* its seed; a caller's KFold(shuffle=True) without a random_state draws from
\* numpy's global generator, so each call can give any shuffle
SplitShuffles ==
    IF cv_kind = "unseeded" THEN Perms(Len(kf_perm))
    ELSE {ShuffledIndices(kf_perm, split_calls)}

\* lines 165-171: the next candidate, or the end of the loop
GsNextCandidate ==
    /\ gs_pc = "loop"
    /\ IF gs_ci > Len(param_combinations)
       THEN /\ gs_pc' = "idle"
            /\ gs_result' = "ok"
            /\ UNCHANGED <<heap, params, gs_estimator, scores, gs_folds,
                           gs_folds_used, split_calls>>
       ELSE \E perm \in SplitShuffles :
            LET ps == ZipParams(param_keys(param_grid),
                                param_combinations[gs_ci])
                n == Len(gs_y)
                folds == KFoldSplit(perm, gs_cv)
            IN /\ params' = ps
               /\ gs_estimator' = CandidateEstimator
               /\ IF ~ValidParams(ps)
                  THEN /\ heap' = CandidateHeap(<<>>)
                       /\ GsRaise("ValueError")
                       /\ UNCHANGED <<scores, gs_folds, gs_folds_used,
                                      split_calls>>
                  ELSE /\ heap' = CandidateHeap(ps)
                       /\ scores' = <<>>
                       /\ IF KFoldSplitRaises(gs_cv, n)
                          THEN /\ GsRaise("ValueError")
                               /\ UNCHANGED <<gs_folds, gs_folds_used,
                                              split_calls>>
                          ELSE /\ gs_folds' = folds
                               /\ gs_folds_used' =
                                    Append(gs_folds_used, folds)
                               /\ split_calls' = split_calls + 1
                               /\ gs_pc' = "fold"
                               /\ UNCHANGED gs_result
    /\ UNCHANGED stVars
    /\ UNCHANGED <<envVars, twin, param_grid, gs_cv,
                   best_estimator_, best_params_, best_score_, gs_y,
                   param_combinations, gs_ci, gs_out, gs_calls, gs_trace,
                   gs_refit_done>>

\* lines 171-179: one fold whose estimator.fit returns
GsFold ==
    /\ gs_pc = "fold"
    /\ gs_folds # <<>>
    /\ LET fold == Head(gs_folds)
           f == Len(scores) + 1
           e == EstFit(heap[gs_estimator], FoldFitRows(fold), gs_y)
       IN /\ heap' = [heap EXCEPT ![gs_estimator] = e]
          /\ scores' = Append(scores, Accuracy(e, gs_y, fold.valid))
          /\ gs_trace' = Append(gs_trace,
                                Event("fold", gs_ci, f, gs_estimator, TRUE))
    /\ gs_folds' = Tail(gs_folds)
    /\ UNCHANGED stVars
    /\ UNCHANGED <<envVars, split_calls, twin, param_grid, gs_cv,
                   best_estimator_, best_params_, best_score_, gs_pc, gs_y,
                   param_combinations, gs_ci, params, gs_estimator,
                   gs_result, gs_out, gs_calls, gs_folds_used, gs_refit_done>>

\* a fold whose estimator.fit raises is dropped and the loop goes on
GsFoldSkip ==
    /\ gs_pc = "fold"
    /\ gs_folds # <<>>
    /\ gs_trace' = Append(gs_trace,
                          Event("fold", gs_ci, gs_cv - Len(gs_folds) + 1,
                                gs_estimator, FALSE))
    /\ gs_folds' = Tail(gs_folds)
    /\ UNCHANGED stVars
    /\ UNCHANGED <<envVars, heap, split_calls, twin, param_grid, gs_cv,
                   best_estimator_, best_params_, best_score_, gs_pc, gs_y,
                   param_combinations, gs_ci, params, gs_estimator, scores,
                   gs_result, gs_out, gs_calls, gs_folds_used, gs_refit_done>>

\* line 175: estimator.fit raises; nothing in fit catches it
GsFoldFail ==
    /\ gs_pc = "fold"
    /\ gs_folds # <<>>
    /\ gs_trace' = Append(gs_trace,
                          Event("fold", gs_ci, Len(scores) + 1,
                                gs_estimator, FALSE))
    /\ GsRaise("FitError")
    /\ UNCHANGED stVars
    /\ UNCHANGED <<envVars, heap, split_calls, twin, param_grid, gs_cv,
                   best_estimator_, best_params_, best_score_, gs_y,
                   param_combinations, gs_ci, params, gs_estimator, scores,
                   gs_folds, gs_out, gs_calls, gs_folds_used, gs_refit_done>>

\* lines 181-185: the mean score against the running best
GsCandidateEnd ==
    /\ gs_pc = "fold"
    /\ gs_folds = <<>>
    /\ LET avg_score == Mean(scores, Len(gs_y))
       IN IF IsBetter(best_score_, avg_score)
          THEN /\ best_score_' = avg_score
               /\ best_params_' = Some(params)
               /\ best_estimator_' = gs_estimator
               /\ gs_pc' = "refit"
               /\ UNCHANGED gs_ci
          ELSE /\ gs_ci' = gs_ci + 1
               /\ gs_pc' = "loop"
               /\ UNCHANGED <<best_score_, best_params_, best_estimator_>>
    /\ UNCHANGED stVars
    /\ UNCHANGED <<envVars, heap, split_calls, twin, param_grid, gs_cv,
                   gs_y, param_combinations, params, gs_estimator, scores,
                   gs_folds, gs_result, gs_out, gs_calls, gs_trace,
                   gs_folds_used, gs_refit_done>>

\* line 186: self.best_estimator_.fit(X, y) returns
GsRefit ==
    /\ gs_pc = "refit"
    /\ heap' = [heap EXCEPT ![best_estimator_] =
                    EstFit(heap[best_estimator_],
                           FullFitRows(Len(gs_y), heap[best_estimator_].train),
                           gs_y)]
    /\ gs_trace' = Append(gs_trace,
                          Event("full", gs_ci, 0, best_estimator_, TRUE))
    /\ gs_refit_done' = TRUE
    /\ gs_ci' = gs_ci + 1
    /\ gs_pc' = "loop"
    /\ UNCHANGED stVars
    /\ UNCHANGED <<envVars, split_calls, twin, param_grid, gs_cv,
                   best_estimator_, best_params_, best_score_, gs_y,
                   param_combinations, params, gs_estimator, scores,
                   gs_folds, gs_result, gs_out, gs_calls, gs_folds_used>>

\* line 186: self.best_estimator_.fit(X, y) raises
GsRefitFail ==
    /\ gs_pc = "refit"
    /\ gs_trace' = Append(gs_trace,
                          Event("full", gs_ci, 0, best_estimator_, FALSE))
    /\ GsRaise("FitError")
    /\ UNCHANGED stVars
    /\ UNCHANGED <<envVars, heap, split_calls, twin, param_grid, gs_cv,
                   best_estimator_, best_params_, best_score_, gs_y,
                   param_combinations, gs_ci, params, gs_estimator, scores,
                   gs_folds, gs_out, gs_calls, gs_folds_used, gs_refit_done>>

\* ----------------------------------------- MyGridSearchCV.predict, score
\* lines 200-202, on the rows of the feature matrix 0 .. n-1
GsPredict ==
    /\ engine = "gs"
    /\ gs_pc = "idle"
    /\ gs_out.n < call_budget
    /\ LET xs == Features(Len(kf_perm))
       IN gs_out' =
            IF best_estimator_ = 0
            THEN Out("predict", xs, "ValueError", 0, <<>>, gs_out.n + 1)
            ELSE Out("predict", xs, "ok", best_estimator_,
                     [r \in DOMAIN xs |->
                         EstPredict(heap[best_estimator_], xs[r])],
                     gs_out.n + 1)
    /\ UNCHANGED stVars
    /\ UNCHANGED <<envVars, heap, split_calls, twin, param_grid, gs_cv,
                   best_estimator_, best_params_, best_score_, gs_pc, gs_y,
                   param_combinations, gs_ci, params, gs_estimator, scores,
                   gs_folds, gs_result, gs_calls, gs_trace, gs_folds_used,
                   gs_refit_done>>

\* a score that fits the estimator on the rows it is given before scoring it
GsScoreRefits(y) ==
    /\ engine = "gs"
    /\ gs_pc = "idle"
    /\ gs_out.n < call_budget
    /\ IF best_estimator_ = 0
       THEN /\ gs_out' = Out("score", y, "ValueError", 0, <<>>, gs_out.n + 1)
            /\ UNCHANGED heap
       ELSE LET e == EstFit(heap[best_estimator_], Rows(Len(y)), y)
            IN /\ heap' = [heap EXCEPT ![best_estimator_] = e]
               /\ gs_out' = Out("score", y, "ok", best_estimator_,
                                <<Accuracy(e, y, Rows(Len(y)))>>,
                                gs_out.n + 1)
    /\ UNCHANGED stVars
    /\ UNCHANGED <<envVars, split_calls, twin, param_grid, gs_cv,
                   best_estimator_, best_params_, best_score_, gs_pc, gs_y,
                   param_combinations, gs_ci, params, gs_estimator, scores,
                   gs_folds, gs_result, gs_calls, gs_trace, gs_folds_used,
                   gs_refit_done>>

\* lines 217-219, on the feature matrix 0 .. n-1 and the labels y
GsScore(y) ==
    /\ engine = "gs"
    /\ gs_pc = "idle"
    /\ gs_out.n < call_budget
    /\ gs_out' =
         IF best_estimator_ = 0
         THEN Out("score", y, "ValueError", 0, <<>>, gs_out.n + 1)
         ELSE Out("score", y, "ok", best_estimator_,
                  <<Accuracy(heap[best_estimator_], y, Rows(Len(y)))>>,
                  gs_out.n + 1)
    /\ UNCHANGED stVars
    /\ UNCHANGED <<envVars, heap, split_calls, twin, param_grid, gs_cv,
                   best_estimator_, best_params_, best_score_, gs_pc, gs_y,
                   param_combinations, gs_ci, params, gs_estimator, scores,
                   gs_folds, gs_result, gs_calls, gs_trace, gs_folds_used,
                   gs_refit_done>>

\* ------------------------------------------------- MyStackingClassifier.fit
StRaise(err) ==
    /\ st_pc' = "idle"
    /\ st_result' = err

Zeros(n) == [r \in 1 .. n |-> 0]

Unwritten(n) == [r \in 1 .. n |-> None]

\* one copy per distinct object of the list: an estimator that is listed
\* twice gets the same copy at both positions
CopyOfShared(i, base) ==
    base + CHOOSE j \in 1 .. i :
               /\ estimators[j] = estimators[i]
               /\ \A l \in 1 .. (j - 1) : estimators[l] # estimators[i]

\* copies made by the first fit call only: a later call finds the objects
\* that follow the caller's own and keeps them
CopyOfFirstCall(i, base) == final_estimator + i

\* line 270: [deepcopy(est[1]) for est in self.estimators] makes a new object
\* for every position of the list; base objects exist before the call
CopyOf(i, base) == base + i

\* lines 270-277: the copies, the zero matrix and the splitter
StFitBegin(y) ==
    /\ engine = "st"
    /\ st_pc = "idle"
    /\ st_calls < fit_budget
    /\ st_calls' = st_calls + 1
    /\ st_y' = y
    /\ LET m == Len(estimators)
           base == Len(heap)
       IN /\ heap' = heap
                       \o [i \in 1 .. m |-> deepcopy(heap[estimators[i]])]
                       \o <<deepcopy(heap[final_estimator])>>
          /\ base_estimators_' = Some([i \in 1 .. m |-> CopyOf(i, base)])
          /\ final_estimator_' = base + m + 1
          /\ meta_features' = [r \in Rows(Len(y)) |-> Zeros(m)]
          /\ meta_src' = [r \in Rows(Len(y)) |-> Unwritten(m)]
    /\ oof_preds' = <<>>
    /\ oof_src' = <<>>
    /\ st_trace' = <<>>
    /\ st_folds_used' = <<>>
    /\ st_out' = NoOut
    /\ st_i' = 1
    /\ IF KFoldCtorRaises(st_cv)
       THEN StRaise("ValueError")
       ELSE st_pc' = "est" /\ st_result' = "running"
    /\ UNCHANGED gsVars
    /\ UNCHANGED <<envVars, split_calls, twin, estimators, final_estimator,
                   st_cv, st_folds, st_fit_done>>

\* lines 279-281: the next base estimator, or the end of the loop
StNextEstimator ==
    /\ st_pc = "est"
    /\ LET n == Len(st_y)
           folds == KFoldSplit(ShuffledIndices(kf_perm, split_calls), st_cv)
       IN IF st_i > Len(base_estimators_[1])
          THEN /\ st_pc' = "meta"
               /\ UNCHANGED <<oof_preds, oof_src, st_folds, st_result,
                              st_folds_used, split_calls>>
          ELSE /\ oof_preds' = Zeros(n)
               /\ oof_src' = Unwritten(n)
               /\ IF KFoldSplitRaises(st_cv, n)
                  THEN /\ StRaise("ValueError")
                       /\ UNCHANGED <<st_folds, st_folds_used, split_calls>>
                  ELSE /\ st_folds' = folds
                       /\ st_folds_used' = Append(st_folds_used, folds)
                       /\ split_calls' = split_calls + 1
                       /\ st_pc' = "fold"
                       /\ UNCHANGED st_result
    /\ UNCHANGED gsVars
    /\ UNCHANGED <<envVars, heap, twin, estimators,
                   final_estimator, st_cv, base_estimators_,
                   final_estimator_, st_y, st_i, meta_features, st_out,
                   st_calls, st_trace, meta_src, st_fit_done>>

\* line 279: for i, estimator in enumerate(self.base_estimators_); this is
\* the object every fold of position i fits
FoldEstimator(i) == base_estimators_[1][i]

\* predictions written at the rows the estimator was just fitted on
OofWriteRowsTrain(fold) == fold.train

\* line 283: oof_preds[valid_idx] = estimator.predict(X[valid_idx])
OofWriteRows(fold) == fold.valid

\* lines 281-283: one fold whose estimator.fit returns
StFold ==
    /\ st_pc = "fold"
    /\ st_folds # <<>>
    /\ LET fold == Head(st_folds)
           id == FoldEstimator(st_i)
           f == st_cv - Len(st_folds) + 1
           e == EstFit(heap[id], FoldFitRows(fold), st_y)
       IN /\ heap' = [heap EXCEPT ![id] = e]
          /\ oof_preds' = [r \in DOMAIN oof_preds |->
                              IF r \in OofWriteRows(fold)
                              THEN EstPredict(e, X(r))
                              ELSE oof_preds[r]]
          /\ oof_src' = [r \in DOMAIN oof_src |->
                            IF r \in OofWriteRows(fold) THEN Some(e.train)
                            ELSE oof_src[r]]
          /\ st_trace' = Append(st_trace, Event("fold", st_i, f, id, TRUE))
    /\ st_folds' = Tail(st_folds)
    /\ UNCHANGED gsVars
    /\ UNCHANGED <<envVars, split_calls, twin, estimators, final_estimator,
                   st_cv, st_folds_used, base_estimators_, final_estimator_, st_pc, st_y,
                   st_i, meta_features, st_result, st_out, st_calls,
                   meta_src, st_fit_done>>

\* line 282: estimator.fit raises; nothing in fit catches it
StFoldFail ==
    /\ st_pc = "fold"
    /\ st_folds # <<>>
    /\ st_trace' = Append(st_trace,
                          Event("fold", st_i, st_cv - Len(st_folds) + 1,
                                FoldEstimator(st_i), FALSE))
    /\ StRaise("FitError")
    /\ UNCHANGED gsVars
    /\ UNCHANGED <<envVars, heap, split_calls, twin, estimators,
                   final_estimator, st_cv, st_folds_used, base_estimators_,
                   final_estimator_, st_y, st_i, meta_features, oof_preds,
                   st_folds, st_out, st_calls, oof_src, meta_src,
                   st_fit_done>>

\* line 284: meta_features[:, i] = oof_preds
StColumn ==
    /\ st_pc = "fold"
    /\ st_folds = <<>>
    /\ meta_features' = [r \in DOMAIN meta_features |->
                            [meta_features[r] EXCEPT ![st_i] = oof_preds[r]]]
    /\ meta_src' = [r \in DOMAIN meta_src |->
                       [meta_src[r] EXCEPT ![st_i] = oof_src[r]]]
    /\ st_pc' = "full"
    /\ UNCHANGED gsVars
    /\ UNCHANGED <<envVars, heap, split_calls, twin, estimators,
                   final_estimator, st_cv, st_folds_used, base_estimators_,
                   final_estimator_, st_y, st_i, oof_preds, st_folds,
                   st_result, st_out, st_calls, st_trace, oof_src,
                   st_fit_done>>

\* line 286: estimator.fit(X, y) returns
StFullFit ==
    /\ st_pc = "full"
    /\ LET id == base_estimators_[1][st_i]
       IN /\ heap' = [heap EXCEPT ![id] =
                         EstFit(heap[id],
                                FullFitRows(Len(st_y), heap[id].train),
                                st_y)]
          /\ st_trace' = Append(st_trace, Event("full", st_i, 0, id, TRUE))
    /\ st_i' = st_i + 1
    /\ st_pc' = "est"
    /\ UNCHANGED gsVars
    /\ UNCHANGED <<envVars, split_calls, twin, estimators, final_estimator,
                   st_cv, st_folds_used, base_estimators_, final_estimator_, st_y,
                   meta_features, oof_preds, st_folds, st_result, st_out,
                   st_calls, oof_src, meta_src, st_fit_done>>

\* line 286: estimator.fit(X, y) raises
StFullFitFail ==
    /\ st_pc = "full"
    /\ st_trace' = Append(st_trace,
                          Event("full", st_i, 0, base_estimators_[1][st_i],
                                FALSE))
    /\ StRaise("FitError")
    /\ UNCHANGED gsVars
    /\ UNCHANGED <<envVars, heap, split_calls, twin, estimators,
                   final_estimator, st_cv, st_folds_used, base_estimators_,
                   final_estimator_, st_y, st_i, meta_features, oof_preds,
                   st_folds, st_out, st_calls, oof_src, meta_src,
                   st_fit_done>>

\* line 288: self.final_estimator_.fit(meta_features, y) returns
StMetaFit ==
    /\ st_pc = "meta"
    /\ heap' = [heap EXCEPT ![final_estimator_] =
                   MetaFit(heap[final_estimator_], meta_features, st_y)]
    /\ st_trace' = Append(st_trace,
                          Event("meta", 0, 0, final_estimator_, TRUE))
    /\ st_pc' = "idle"
    /\ st_result' = "ok"
    /\ st_fit_done' = TRUE
    /\ UNCHANGED gsVars
    /\ UNCHANGED <<envVars, split_calls, twin, estimators, final_estimator,
                   st_cv, st_folds_used, base_estimators_, final_estimator_, st_y, st_i,
                   meta_features, oof_preds, st_folds, st_out, st_calls,
                   oof_src, meta_src>>

\* line 288: self.final_estimator_.fit(meta_features, y) raises
StMetaFitFail ==
    /\ st_pc = "meta"
    /\ st_trace' = Append(st_trace,
                          Event("meta", 0, 0, final_estimator_, FALSE))
    /\ StRaise("FitError")
    /\ UNCHANGED gsVars
    /\ UNCHANGED <<envVars, heap, split_calls, twin, estimators,
                   final_estimator, st_cv, st_folds_used, base_estimators_,
                   final_estimator_, st_y, st_i, meta_features, oof_preds,
                   st_folds, st_out, st_calls, oof_src, meta_src,
                   st_fit_done>>

\* --------------------------------------------- MyStackingClassifier.predict
\* lines 299-302, on the rows xs: iterating None
\* is a TypeError, an unfitted estimator's predict raises NotFittedError,
\* np.column_stack of no arrays raises ValueError
StPredictOutcome(xs) ==
    IF base_estimators_ = None
    THEN Out("predict", xs, "TypeError", 0, <<>>, st_out.n + 1)
    ELSE LET ids == base_estimators_[1]
             cols == [i \in 1 .. Len(ids) |->
                        [r \in DOMAIN xs |-> EstPredict(heap[ids[i]], xs[r])]]
         IN IF \E i \in 1 .. Len(ids) : ~heap[ids[i]].fitted
            THEN Out("predict", xs, "NotFittedError", 0, <<>>, st_out.n + 1)
            ELSE IF ids = <<>>
            THEN Out("predict", xs, "ValueError", 0, <<>>, st_out.n + 1)
            ELSE IF ~heap[final_estimator_].fitted
            THEN Out("predict", xs, "NotFittedError", 0, <<>>, st_out.n + 1)
            ELSE Out("predict", xs, "ok", final_estimator_,
                     [r \in DOMAIN xs |->
                         MetaPredict(heap[final_estimator_],
                                     [i \in 1 .. Len(ids) |-> cols[i][r]])],
                     st_out.n + 1)

StPredict(xs) ==
    /\ engine = "st"
    /\ st_pc = "idle"
    /\ st_out.n < call_budget
    /\ st_out' = StPredictOutcome(xs)
    /\ UNCHANGED gsVars
    /\ UNCHANGED <<envVars, heap, split_calls, twin, estimators,
                   final_estimator, st_cv, st_folds_used, base_estimators_,
                   final_estimator_, st_pc, st_y, st_i, meta_features,
                   oof_preds, st_folds, st_result, st_calls, st_trace,
                   oof_src, meta_src, st_fit_done>>

NextST ==
    \/ \E y \in Labelings(Len(kf_perm)) : StFitBegin(y)
    \/ StNextEstimator
    \/ StFold
    \/ StFoldFail
    \/ StColumn
    \/ StFullFit
    \/ StFullFitFail
    \/ StMetaFit
    \/ StMetaFitFail
    \/ StPredict(Features(Len(kf_perm)))

NextGS ==
    \/ \E y \in Labelings(Len(kf_perm)) : GsFitBegin(y)
    \/ GsNextCandidate
    \/ GsFold
    \/ GsFoldFail
    \/ GsCandidateEnd
    \/ GsRefit
    \/ GsRefitFail
    \/ GsPredict
    \/ \E y \in ScoreLabelings(Len(kf_perm)) : GsScore(y)

Next == NextGS \/ NextST

Spec == Init /\ [][Next]_vars

\* each engine on its own
SpecGS == InitGS(1) /\ [][NextGS]_vars

SpecST == InitST /\ [][NextST]_vars

\* ------------------------------------------ two objects on the same inputs
\* lines 138-144: once fit has returned on the first object, the caller
\* constructs a second MyGridSearchCV on the same estimator, grid and cv; what
\* the first object's fit gave is kept, to compare
GsConstructAgain ==
    /\ engine = "gs"
    /\ gs_pc = "idle"
    /\ gs_result = "ok"
    /\ twin = None
    /\ twin' = Some([y |-> gs_y, folds |-> gs_folds_used,
                     best_params_ |-> best_params_,
                     best_score_ |-> best_score_])
    /\ best_estimator_' = 0
    /\ best_params_' = None
    /\ best_score_' = NegInf
    /\ gs_y' = <<>>
    /\ param_combinations' = <<>>
    /\ gs_ci' = 0
    /\ params' = <<>>
    /\ gs_estimator' = 0
    /\ scores' = <<>>
    /\ gs_folds' = <<>>
    /\ gs_result' = "none"
    /\ gs_out' = NoOut
    /\ gs_calls' = 0
    /\ gs_trace' = <<>>
    /\ gs_folds_used' = <<>>
    /\ gs_refit_done' = FALSE
    /\ UNCHANGED stVars
    /\ UNCHANGED <<envVars, heap, split_calls, param_grid, gs_cv, gs_pc>>

\* the grids of the two runs: three thresholds, and two parameters
TwinGrids ==
    {g \in GridChoices : Len(Product(param_values(g))) > 2 /\ ValidParams(g)}

InitTwin ==
    /\ InitGS(1)
    /\ gs_cv \in 2 .. NRows
    /\ param_grid \in TwinGrids

\* fit on the second object is called with the dataset of the first
NextTwin ==
    \/ \E y \in Labelings(Len(kf_perm)) :
          (twin # None => y = twin[1].y) /\ GsFitBegin(y)
    \/ GsNextCandidate
    \/ GsFold
    \/ GsFoldFail
    \/ GsCandidateEnd
    \/ GsRefit
    \/ GsRefitFail
    \/ GsConstructAgain

SpecTwin == InitTwin /\ [][NextTwin]_vars

\* ---------------------------------------------- predict and score, twice
InitScore ==
    /\ InitGS(2)
    /\ gs_cv \in 1 .. 2
    /\ param_grid \in TwinGrids

SpecScore == InitScore /\ [][NextGS]_vars

\* ------------------------------------------------- the separable dataset
\* features [[0], [1], [2], [3]] with these labels
SepLabels == <<0, 0, 1, 1>>

\* {threshold: [0.5, 1.5, 2.5]}
SepGrid == << <<"threshold", <<1, 3, 5>> >> >>

\* MyGridSearchCV(stub, SepGrid, cv = 2) on the pure threshold stub, for every
\* shuffle of the four rows
InitSeparable ==
    /\ engine = "gs"
    /\ heap = <<NewEstimator(1, 0)>>
    /\ kf_perm \in Perms(Len(SepLabels))
    /\ fit_budget = 1
    /\ call_budget = 1
    /\ split_calls = 0
    /\ cv_kind = "int"
    /\ twin = None
    /\ param_grid = SepGrid
    /\ gs_cv = 2
    /\ GsFresh
    /\ estimators = <<>>
    /\ final_estimator = 0
    /\ st_cv = 0
    /\ StFresh

NextSeparable ==
    \/ GsFitBegin(SepLabels)
    \/ GsNextCandidate
    \/ GsFold
    \/ GsFoldFail
    \/ GsCandidateEnd
    \/ GsRefit
    \/ GsRefitFail
    \/ GsPredict
    \/ \E y \in ScoreLabelings(Len(kf_perm)) : GsScore(y)

SpecSeparable == InitSeparable /\ [][NextSeparable]_vars

\* ------------------------------------------------ constant base estimators
\* MyStackingClassifier([const, const], majority vote, cv = k) on two
\* estimators that predict class 0 for every row
InitConstant ==
    /\ engine = "st"
    /\ heap = <<NewConstantEstimator, NewConstantEstimator, NewMetaEstimator>>
    /\ kf_perm \in Perms(NRows)
    /\ fit_budget = 1
    /\ call_budget = 1
    /\ split_calls = 0
    /\ cv_kind = "int"
    /\ twin = None
    /\ estimators = <<1, 2>>
    /\ final_estimator = 3
    /\ st_cv \in 2 .. NRows
    /\ StFresh
    /\ param_grid = <<>>
    /\ gs_cv = 0
    /\ GsFresh

\* what predict is called with: the training features, and rows whose
\* features the fit has not seen
PredictInputs(n) ==
    {Features(n), [r \in 1 .. n |-> n + r], <<X(n)>>}

NextConstant ==
    \/ \E y \in Labelings(Len(kf_perm)) : StFitBegin(y)
    \/ StNextEstimator
    \/ StFold
    \/ StFoldFail
    \/ StColumn
    \/ StFullFit
    \/ StFullFitFail
    \/ StMetaFit
    \/ StMetaFitFail
    \/ \E xs \in PredictInputs(Len(kf_perm)) : StPredict(xs)

SpecConstant == InitConstant /\ [][NextConstant]_vars

\* ------------------------------------------------ a caller's splitter
\* MyGridSearchCV(estimator, SepGrid, cv = KFold(k, shuffle=True, ...)): the
\* caller's splitter has a valid fold count, and an integer random_state or
\* none
InitSplitter ==
    /\ engine = "gs"
    /\ \E mem \in {0, 1} : heap = <<NewEstimator(1, mem)>>
    /\ kf_perm \in Perms(NRows)
    /\ fit_budget = 1
    /\ call_budget = 1
    /\ split_calls = 0
    /\ cv_kind \in {"seeded", "unseeded"}
    /\ twin = None
    /\ param_grid = SepGrid
    /\ gs_cv \in 2 .. NRows
    /\ GsFresh
    /\ estimators = <<>>
    /\ final_estimator = 0
    /\ st_cv = 0
    /\ StFresh

\* the fit calls of a caller, on the label vectors ys
NextFit(ys) ==
    \/ \E y \in ys : GsFitBegin(y)
    \/ GsNextCandidate
    \/ GsFold
    \/ GsFoldFail
    \/ GsCandidateEnd
    \/ GsRefit
    \/ GsRefitFail

NextSplitter == NextFit(ScoreLabelings(Len(kf_perm)))

SpecSplitter == InitSplitter /\ [][NextSplitter]_vars

\* ------------------------------------------- two fit calls on one object
\* MyGridSearchCV(estimator, SepGrid, cv = k) by a caller who calls fit twice,
\* on any two of the datasets of RefitLabelings
InitRefit ==
    /\ engine = "gs"
    /\ \E mem \in {0, 1} : heap = <<NewEstimator(1, mem)>>
    /\ kf_perm \in Perms(NRows)
    /\ fit_budget = 2
    /\ call_budget = 1
    /\ split_calls = 0
    /\ cv_kind = "int"
    /\ twin = None
    /\ param_grid = SepGrid
    /\ gs_cv \in 2 .. NRows
    /\ GsFresh
    /\ estimators = <<>>
    /\ final_estimator = 0
    /\ st_cv = 0
    /\ StFresh

\* labels of one class, labels a threshold separates, and alternating labels,
\* which no threshold separates
RefitLabelings(n) == ScoreLabelings(n) \cup {[r \in 1 .. n |-> r % 2]}

NextRefit == NextFit(RefitLabelings(Len(kf_perm)))

SpecRefit == InitRefit /\ [][NextRefit]_vars

\* MyStackingClassifier([a, b], final, cv = k) by a caller who calls fit
\* twice, on any two of the datasets of RefitLabelings
InitStRefit ==
    /\ engine = "st"
    /\ \E mem \in {0, 1} :
          heap = <<NewEstimator(1, mem), NewEstimator(3, mem),
                   NewMetaEstimator>>
    /\ kf_perm \in Perms(NRows)
    /\ fit_budget = 2
    /\ call_budget = 1
    /\ split_calls = 0
    /\ cv_kind = "int"
    /\ twin = None
    /\ estimators \in {es \in EstimatorLists : Len(es) > 1}
    /\ final_estimator = 3
    /\ st_cv \in 2 .. NRows
    /\ StFresh
    /\ param_grid = <<>>
    /\ gs_cv = 0
    /\ GsFresh

NextStRefit ==
    \/ \E y \in RefitLabelings(Len(kf_perm)) : StFitBegin(y)
    \/ StNextEstimator
    \/ StFold
    \/ StFoldFail
    \/ StColumn
    \/ StFullFit
    \/ StFullFitFail
    \/ StMetaFit
    \/ StMetaFitFail
    \/ StPredict(Features(Len(kf_perm)))

SpecStRefit == InitStRefit /\ [][NextStRefit]_vars

\* ------------------------------------------------ datasets of every size
\* MyStackingClassifier([est], final, cv = k, random_state = seed) for every
\* dataset size n of 2 .. MaxRows, every k of 2 .. n and every shuffle
InitSizes ==
    /\ engine = "st"
    /\ heap = <<NewEstimator(1, 0), NewEstimator(3, 0), NewMetaEstimator>>
    /\ kf_perm \in UNION {Perms(n) : n \in 2 .. MaxRows}
    /\ fit_budget = 1
    /\ call_budget = 1
    /\ split_calls = 0
    /\ cv_kind = "int"
    /\ twin = None
    /\ estimators = <<1>>
    /\ final_estimator = 3
    /\ st_cv \in 2 .. Len(kf_perm)
    /\ StFresh
    /\ param_grid = <<>>
    /\ gs_cv = 0
    /\ GsFresh

NextSizes ==
    \/ \E y \in ScoreLabelings(Len(kf_perm)) : StFitBegin(y)
    \/ StNextEstimator
    \/ StFold
    \/ StFoldFail
    \/ StColumn
    \/ StFullFit
    \/ StFullFitFail
    \/ StMetaFit
    \/ StMetaFitFail
    \/ StPredict(Features(Len(kf_perm)))

SpecSizes == InitSizes /\ [][NextSizes]_vars

\* ===================================================================
\* Properties
\* ===================================================================
Candidates == Product(param_values(param_grid))

CandidateParams(c) == ZipParams(param_keys(param_grid), Candidates[c])

\* the mean cross-validated score of a parameter setting, from the
\* definition: a fresh clone of the prototype per fold, fitted on the fold's
\* training rows and scored on its validation rows
CvScores(ps, y, folds) ==
    [f \in 1 .. Len(folds) |->
        Accuracy(EstFit(set_params(clone(heap[SelfEstimator]), ps),
                        folds[f].train, y),
                 y, folds[f].valid)]

MeanCvScore(c) ==
    Mean(CvScores(CandidateParams(c), gs_y, gs_folds_used[c]), Len(gs_y))

GsReturned == engine = "gs" /\ gs_pc = "idle" /\ gs_result = "ok"

\* C1: stacking no-leakage: every out-of-fold prediction written for row r
\* (into oof_preds, then into column i of meta_features) comes from an
\* estimator whose most recent fit was on a row set that does not contain r.
C1_NoLeakage ==
    engine = "st" =>
        /\ \A r \in DOMAIN oof_src :
              oof_src[r] # None => r \notin oof_src[r][1]
        /\ \A r \in DOMAIN meta_src : \A i \in DOMAIN meta_src[r] :
              meta_src[r][i] # None => r \notin meta_src[r][i][1]

C1_Witness ==
    /\ engine = "st"
    /\ st_pc = "idle"
    /\ st_result = "ok"
    /\ Len(estimators) = 2
    /\ \A r \in DOMAIN meta_src : \A i \in DOMAIN meta_src[r] :
          meta_src[r][i] # None /\ meta_src[r][i][1] # {}

\* C2: grid search optimality: when fit returns on a fresh object,
\* best_score_ is at least the mean cross-validated score of every candidate
\* of the product, computed from the definition on the folds of the call.
C2_Optimality ==
    (GsReturned /\ gs_calls = 1) =>
        \A c \in 1 .. Len(Candidates) : best_score_ >= MeanCvScore(c)

C2_Witness ==
    /\ GsReturned
    /\ gs_calls = 1
    /\ Len(Candidates) >= 3
    /\ best_params_ = Some(CandidateParams(2))
    /\ \E c \in 1 .. Len(Candidates) : best_score_ > MeanCvScore(c)

\* the candidates already evaluated and compared in the running fit call
Evaluated ==
    IF gs_pc \in {"loop", "idle"} THEN 1 .. (gs_ci - 1) ELSE 1 .. 0

\* C3: first-wins tie-break: after each candidate of a fit call on a fresh
\* object has been compared, best_params_ is the first, in enumeration
\* order, of the candidates evaluated so far that have the highest mean score.
C3_FirstWins ==
    (/\ engine = "gs"
     /\ gs_calls = 1
     /\ gs_pc = "loop" \/ (gs_pc = "idle" /\ gs_result = "ok")
     /\ Evaluated # {}) =>
        \E c \in Evaluated :
            /\ \A d \in Evaluated : MeanCvScore(d) <= MeanCvScore(c)
            /\ \A d \in Evaluated : d < c => MeanCvScore(d) < MeanCvScore(c)
            /\ best_params_ = Some(CandidateParams(c))
            /\ best_score_ = MeanCvScore(c)

C3_Witness ==
    /\ GsReturned
    /\ gs_calls = 1
    /\ \E c, d \in 1 .. Len(Candidates) :
          /\ 1 < c /\ c < d
          /\ MeanCvScore(c) = MeanCvScore(d)
          /\ MeanCvScore(c) = best_score_
          /\ best_params_ = Some(CandidateParams(c))

\* the fold fits that returned, before position j of the trace
FoldsBefore(j) ==
    Cardinality({i \in 1 .. (j - 1) :
                    gs_trace[i].ev = "fold" /\ gs_trace[i].ok})

FullFits == {j \in DOMAIN gs_trace : gs_trace[j].ev = "full"}

\* C4 as stated: in one fit call the fit on the entire dataset is performed
\* exactly once, and only after every candidate has been evaluated on every
\* fold.
C4_OneFinalFit ==
    engine = "gs" =>
        /\ \A j \in FullFits :
              /\ FoldsBefore(j) = Len(param_combinations) * gs_cv
              /\ \A i \in FullFits : i = j
        /\ (GsReturned /\ param_combinations # <<>>) => FullFits # {}

\* C4 as the code has it: in a fit call on a fresh object the fit on the
\* entire dataset is performed once for each candidate whose mean score is
\* strictly greater than that of every candidate before it (so always for the
\* first candidate), right after that candidate's own k folds and before any
\* later candidate is evaluated; the last such fit is that of best_params_.
C4_RefitPerImprovement ==
    (engine = "gs" /\ gs_calls = 1) =>
        /\ \A j \in FullFits :
              LET c == gs_trace[j].c
              IN /\ j > gs_cv
                 /\ \A f \in 1 .. gs_cv :
                       gs_trace[j - gs_cv + f - 1]
                           = Event("fold", c, f, gs_trace[j].inst, TRUE)
                 /\ \A i \in FullFits : gs_trace[i].c = c => i = j
                 /\ \A d \in 1 .. (c - 1) : MeanCvScore(d) < MeanCvScore(c)
        /\ \A c \in Evaluated :
              (\A d \in 1 .. (c - 1) : MeanCvScore(d) < MeanCvScore(c))
                  => \E j \in FullFits : gs_trace[j].c = c /\ gs_trace[j].ok
        /\ (GsReturned /\ param_combinations # <<>>) =>
              /\ FullFits # {}
              /\ \A j \in FullFits :
                    (\A i \in FullFits : i <= j) =>
                        best_params_ = Some(CandidateParams(gs_trace[j].c))

C4_Witness ==
    /\ GsReturned
    /\ gs_calls = 1
    /\ Cardinality(FullFits) >= 2
    /\ \E j \in FullFits : FoldsBefore(j) < Len(param_combinations) * gs_cv

\* C5: predict and score raise ValueError, delegating to no estimator,
\* whenever no fit on the entire dataset has completed on the object.
C5_NotFittedBeforeRefit ==
    (engine = "gs" /\ gs_out.op \in {"predict", "score"} /\ ~gs_refit_done)
        => (gs_out.res = "ValueError" /\ gs_out.inst = 0)

\* C6: the fitted state of MyStackingClassifier (base_estimators_ and
\* final_estimator_) is absent, and predict fails, unless a fit call has
\* completed successfully.
C6_StateOnlyAfterFit ==
    (engine = "st" /\ st_pc = "idle" /\ ~st_fit_done) =>
        /\ base_estimators_ = None
        /\ final_estimator_ = 0
        /\ st_out.op = "predict" => st_out.res # "ok"

\* the fold fits of unit c (a candidate, a base estimator) that returned
OkFolds(trace, c) ==
    {j \in DOMAIN trace : trace[j].ev = "fold" /\ trace[j].c = c /\ trace[j].ok}

\* C7: in both engines an estimator fit that raises ends the fit call: the
\* error reaches the caller, nothing is evaluated after it, and no mean score
\* and no meta-feature column is computed from fewer than k folds.
C7_FailFast ==
    /\ engine = "gs" =>
          /\ \A j \in DOMAIN gs_trace :
                ~gs_trace[j].ok =>
                    /\ j = Len(gs_trace)
                    /\ gs_pc = "idle"
                    /\ gs_result = "FitError"
          /\ gs_result = "ok" => \A j \in DOMAIN gs_trace : gs_trace[j].ok
          /\ \A c \in 1 .. Len(param_combinations) :
                (c < gs_ci \/ (c = gs_ci /\ gs_pc = "refit")) =>
                    Cardinality(OkFolds(gs_trace, c)) = gs_cv
          /\ gs_pc = "fold" =>
                Len(scores) = Cardinality(OkFolds(gs_trace, gs_ci))
    /\ engine = "st" =>
          /\ \A j \in DOMAIN st_trace :
                ~st_trace[j].ok =>
                    /\ j = Len(st_trace)
                    /\ st_pc = "idle"
                    /\ st_result = "FitError"
          /\ st_result = "ok" => \A j \in DOMAIN st_trace : st_trace[j].ok
          /\ \A r \in DOMAIN meta_src : \A i \in DOMAIN meta_src[r] :
                meta_src[r][i] # None =>
                    Cardinality(OkFolds(st_trace, i)) = st_cv

C7_Witness ==
    /\ engine = "st"
    /\ st_pc = "idle"
    /\ st_result = "FitError"
    /\ Len(st_trace) > st_cv + 1
    /\ st_trace[Len(st_trace)].ev = "fold"
    /\ st_trace[Len(st_trace)].c = 2
    /\ st_trace[Len(st_trace)].f = 1

\* C8: when a grid search fit call is aborted by an estimator fit that
\* raises, nothing chosen from the candidates evaluated before it is kept,
\* and predict afterwards fails as not fitted.
C8_PartialDiscarded ==
    (engine = "gs" /\ gs_pc = "idle" /\ gs_result = "FitError") =>
        /\ best_params_ = None
        /\ best_estimator_ = 0
        /\ best_score_ = NegInf
        /\ gs_out.op = "predict" => gs_out.res = "ValueError"

\* C9: in both engines fit with k < 2 or k > n fails with a configuration
\* error before any estimator fit call, leaving no fitted state on the object.
C9_BadFoldCount ==
    /\ (engine = "gs" /\ gs_calls > 0
            /\ (gs_cv < 2 \/ gs_cv > Len(gs_y))) =>
          /\ gs_trace = <<>>
          /\ gs_pc = "idle" =>
                /\ gs_result = "ValueError"
                /\ best_estimator_ = 0
                /\ best_params_ = None
    /\ (engine = "st" /\ st_calls > 0
            /\ (st_cv < 2 \/ st_cv > Len(st_y))) =>
          /\ st_trace = <<>>
          /\ st_pc = "idle" =>
                /\ st_result = "ValueError"
                /\ base_estimators_ = None
                /\ final_estimator_ = 0

\* C10: fit with an empty grid (grid search) or an empty base-estimator list
\* (stacking) fails with a configuration error before any estimator is fitted.
C10_EmptyConfig ==
    /\ (engine = "gs" /\ gs_calls > 0 /\ param_grid = <<>>) =>
          /\ gs_trace = <<>>
          /\ gs_pc = "idle" => gs_result = "ValueError"
    /\ (engine = "st" /\ st_calls > 0 /\ estimators = <<>>) =>
          /\ st_trace = <<>>
          /\ st_pc = "idle" => st_result = "ValueError"

\* the grid names a parameter the estimator does not have
UnknownName ==
    \E i \in 1 .. Len(param_grid) : param_grid[i][1] \notin ParamNames

\* C11: when the grid names a parameter the estimator does not recognise and
\* yields at least one candidate, fit fails: no estimator fit call is made,
\* the error reaches the caller, and with a usable fold count it is raised
\* when the parameters of the first candidate are set on its clone.
C11_UnknownParameter ==
    (engine = "gs" /\ gs_calls > 0 /\ UnknownName) =>
        /\ gs_trace = <<>>
        /\ gs_pc \in {"idle", "loop"}
        /\ \A i \in DOMAIN heap : ~heap[i].fitted
        /\ (gs_pc = "idle" /\ Candidates # <<>>) =>
              /\ gs_result = "ValueError"
              /\ gs_cv >= 2 =>
                    /\ gs_ci = 1
                    /\ params = CandidateParams(1)
                    /\ gs_estimator = Len(heap)
                    /\ gs_estimator > SelfEstimator

C11_Witness ==
    /\ engine = "gs"
    /\ gs_pc = "idle"
    /\ UnknownName
    /\ Candidates # <<>>
    /\ gs_cv >= 2
    /\ gs_result = "ValueError"
    /\ gs_estimator > SelfEstimator
    /\ params = CandidateParams(1)

\* the estimator objects the caller handed to the constructor
Prototypes ==
    IF engine = "gs" THEN {SelfEstimator}
    ELSE {estimators[i] : i \in DOMAIN estimators} \cup {final_estimator}

\* C12: no step of fit, predict or score changes an estimator object the
\* caller passed in: it is never fitted and no parameter is set on it; only
\* the copies the engine makes are changed.
C12_PrototypesUntouched ==
    [][\A p \in Prototypes : heap'[p] = heap[p] /\ ~heap'[p].fitted]_vars

C12_Witness ==
    /\ GsReturned
    /\ best_estimator_ > SelfEstimator
    /\ heap[best_estimator_].fitted
    /\ heap[best_estimator_].threshold # heap[SelfEstimator].threshold
    /\ ~heap[SelfEstimator].fitted
    /\ gs_out.op = "score"
    /\ gs_out.res = "ok"

\* C13: within one stacking fit call every base estimator gets the same
\* sequence of (training rows, validation rows) pairs from the splitter, and
\* each out-of-fold prediction written for row r in any column comes from the
\* fit on the training rows of the one fold of that sequence that validates r.
C13_SameFoldsPerEstimator ==
    engine = "st" =>
        /\ \A i, j \in DOMAIN st_folds_used :
              st_folds_used[i] = st_folds_used[j]
        /\ \A r \in DOMAIN meta_src : \A i \in DOMAIN meta_src[r] :
              meta_src[r][i] # None =>
                  \E f \in DOMAIN st_folds_used[1] :
                      /\ r \in st_folds_used[1][f].valid
                      /\ meta_src[r][i][1] = st_folds_used[1][f].train

C13_Witness ==
    /\ engine = "st"
    /\ st_pc = "idle"
    /\ st_result = "ok"
    /\ Len(st_folds_used) = 2
    /\ Len(st_folds_used[2]) > 2
    /\ \A r \in DOMAIN meta_src : \A i \in DOMAIN meta_src[r] :
          meta_src[r][i] # None

\* predict from its definition: for each row of xs the prediction of the
\* meta-estimator, fitted on meta_features, over the predictions of the base
\* estimators, each fitted on the entire dataset, in the order of the list
ExpectedStacked(xs) ==
    LET meta == MetaFit(deepcopy(heap[final_estimator]), meta_features, st_y)
        base(i) == EstFit(deepcopy(heap[estimators[i]]),
                          Rows(Len(st_y)), st_y)
    IN [r \in DOMAIN xs |->
           MetaPredict(meta, [i \in DOMAIN estimators |->
                                 EstPredict(base(i), xs[r])])]

\* C14: after a stacking fit that returned, with at least one base
\* estimator: the instance predict applies for position i was fitted on each
\* of the k folds, then on all n rows, and on nothing after that; the
\* meta-estimator is fitted on meta_features; and predict returns the
\* meta-estimator's output on the base predictions taken in list order.
C14_FullFitLast ==
    (engine = "st" /\ st_pc = "idle" /\ st_result = "ok"
        /\ estimators # <<>>) =>
        LET ids == base_estimators_[1]
        IN /\ Len(ids) = Len(estimators)
           /\ \A i \in DOMAIN ids :
                 /\ heap[ids[i]].fitted
                 /\ heap[ids[i]].train = Rows(Len(st_y))
                 /\ Cardinality(OkFolds(st_trace, i)) = st_cv
                 /\ \E j \in DOMAIN st_trace :
                       /\ st_trace[j] = Event("full", i, 0, ids[i], TRUE)
                       /\ \A l \in DOMAIN st_trace :
                             (st_trace[l].inst = ids[i] /\ l # j) =>
                                 (l < j /\ st_trace[l].ev = "fold")
           /\ heap[final_estimator_].fitted
           /\ heap[final_estimator_].mf = meta_features
           /\ st_out.op = "predict" =>
                 /\ st_out.res = "ok"
                 /\ st_out.inst = final_estimator_
                 /\ st_out.val = ExpectedStacked(st_out.arg)

C14_Witness ==
    /\ engine = "st"
    /\ st_pc = "idle"
    /\ st_result = "ok"
    /\ Len(estimators) = 2
    /\ st_out.op = "predict"
    /\ st_out.res = "ok"
    /\ \E r \in DOMAIN st_out.val :
          /\ st_out.val[r] = 1
          /\ EstPredict(heap[base_estimators_[1][1]], st_out.arg[r])
                # EstPredict(heap[base_estimators_[1][2]], st_out.arg[r])

\* folds is a sequence of k pairs over the rows 1 .. n in which every row is
\* in exactly one validation set and each pair splits the rows in two
IsPartition(folds, n, k) ==
    /\ Len(folds) = k
    /\ \A r \in Rows(n) :
          Cardinality({f \in DOMAIN folds : r \in folds[f].valid}) = 1
    /\ \A f \in DOMAIN folds :
          /\ folds[f].train \cap folds[f].valid = {}
          /\ folds[f].train \cup folds[f].valid = Rows(n)
          /\ folds[f].valid # {}

\* C15: for every dataset size n, every k with 2 <= k <= n and every shuffle
\* of the seed, the splitter yields exactly k pairs, every row index is in
\* exactly one validation set, and the training and validation sets of a pair
\* are disjoint with union all rows; so are the folds a fit call was given.
C15_Partition ==
    /\ \A k \in 2 .. Len(kf_perm) :
          IsPartition(KFoldSplit(ShuffledIndices(kf_perm, split_calls), k),
                      Len(kf_perm), k)
    /\ \A i \in DOMAIN st_folds_used :
          IsPartition(st_folds_used[i], Len(st_y), st_cv)

C15_Witness ==
    /\ st_folds_used # <<>>
    /\ st_pc = "idle"
    /\ st_result = "ok"
    /\ Len(st_y) > NRows
    /\ Len(st_y) % st_cv # 0

\* s is an initial part of t
IsPrefix(s, t) ==
    Len(s) <= Len(t) /\ \A i \in DOMAIN s : s[i] = t[i]

\* C16: of two grid-search fit calls on fresh objects with the same dataset,
\* grid, fold count and seed, the second is given the fold assignments of the
\* first, candidate by candidate, and when it returns its best_params_ and
\* best_score_ are those of the first.
C16_Deterministic ==
    (engine = "gs" /\ twin # None /\ gs_calls > 0) =>
        /\ gs_y = twin[1].y
        /\ IsPrefix(gs_folds_used, twin[1].folds)
        /\ GsReturned =>
              /\ gs_folds_used = twin[1].folds
              /\ best_params_ = twin[1].best_params_
              /\ best_score_ = twin[1].best_score_

C16_Witness ==
    /\ twin # None
    /\ GsReturned
    /\ Len(gs_folds_used) > 2
    /\ best_params_ # None
    /\ best_params_ # Some(CandidateParams(1))
    /\ best_score_ = twin[1].best_score_

\* C17: a score call changes neither best_estimator_, best_params_,
\* best_score_ nor any estimator object, and a score call that follows a score
\* call on the same data gives the same outcome and the same value.
C17_ScoreIdempotent ==
    [][(gs_out'.op = "score" /\ gs_out'.n = gs_out.n + 1) =>
          /\ UNCHANGED <<best_estimator_, best_params_, best_score_, heap>>
          /\ (gs_out.op = "score" /\ gs_out.arg = gs_out'.arg) =>
                (gs_out'.res = gs_out.res /\ gs_out'.val = gs_out.val)]_vars

C17_Witness ==
    /\ GsReturned
    /\ gs_out.op = "score"
    /\ gs_out.n = call_budget
    /\ gs_out.n > 1
    /\ gs_out.res = "ok"
    /\ gs_out.arg # gs_y

\* the score 1.0 on a dataset of n rows, in units of 1 / (n! * n!)
ScoreOne(n) == Fact(n) * Fact(n)

\* C18: on features 0, 1, 2, 3 with labels 0, 0, 1, 1, the grid of
\* thresholds 0.5, 1.5, 2.5, the threshold stub, accuracy and k = 2, a fit
\* that returns has best_params_ = {threshold: 1.5} and best_score_ = 1.0,
\* whatever 2-fold partition the shuffle gives.
C18_Separable ==
    (GsReturned /\ gs_y = SepLabels /\ param_grid = SepGrid /\ gs_cv = 2) =>
        /\ best_params_ = Some(<< <<"threshold", 3>> >>)
        /\ best_score_ = ScoreOne(Len(SepLabels))
        /\ gs_out.op = "predict" => gs_out.val = SepLabels

C18_Witness ==
    /\ GsReturned
    /\ gs_y = SepLabels
    /\ param_grid = SepGrid
    /\ Len(gs_folds_used) = Len(SepGrid[1][2])
    /\ best_score_ = ScoreOne(Len(SepLabels))
    /\ MeanCvScore(1) < best_score_
    /\ gs_out.op = "predict"

\* the caller's base estimators are two estimators that always predict 0
ConstantBases ==
    /\ Len(estimators) = 2
    /\ \A i \in DOMAIN estimators : heap[estimators[i]].kind = "const"

\* C19: with two identical base estimators that always predict class 0 and
\* a majority-vote meta-estimator, after a fit that returned predict gives
\* class 0 for every row of whatever input it is called with.
C19_ConstantBase ==
    (engine = "st" /\ ConstantBases /\ st_pc = "idle" /\ st_result = "ok"
        /\ st_out.op = "predict") =>
        /\ st_out.res = "ok"
        /\ DOMAIN st_out.val = DOMAIN st_out.arg
        /\ \A r \in DOMAIN st_out.val : st_out.val[r] = 0

C19_Witness ==
    /\ engine = "st"
    /\ ConstantBases
    /\ st_pc = "idle"
    /\ st_result = "ok"
    /\ st_out.op = "predict"
    /\ st_out.res = "ok"
    /\ st_out.arg # Features(Len(st_y))
    /\ Len(st_out.val) > 1
    /\ \A r \in DOMAIN st_y : st_y[r] = 1

\* C20: the instance fitted on a fold's training rows is a transient clone:
\* no instance that received a fold fit is one of those kept in
\* base_estimators_ and applied by predict.
C20_TransientFoldClone ==
    (engine = "st" /\ base_estimators_ # None) =>
        \A j \in DOMAIN st_trace :
            st_trace[j].ev = "fold" =>
                \A i \in DOMAIN base_estimators_[1] :
                    base_estimators_[1][i] # st_trace[j].inst

\* the units of work (a candidate or base estimator c, a fold f) whose fit
\* call went to the estimator object inst
UnitsOn(trace, inst) ==
    {<<trace[j].c, trace[j].f>> :
        j \in {l \in DOMAIN trace :
                  trace[l].ev = "fold" /\ trace[l].inst = inst}}

\* C21: every unit of work, one fold of one candidate or of one base
\* estimator, fits an estimator object of its own: no object receives the
\* fold fits of two different units.
C21_OwnClonePerUnit ==
    /\ engine = "gs" =>
          \A i \in DOMAIN heap : Cardinality(UnitsOn(gs_trace, i)) <= 1
    /\ engine = "st" =>
          \A i \in DOMAIN heap : Cardinality(UnitsOn(st_trace, i)) <= 1

\* C22: within one grid-search fit call every candidate is evaluated on
\* the same fold assignment, with an integer cv and with a caller's splitter
\* whose split is called once per candidate.
C22_SameFoldsPerCandidate ==
    engine = "gs" =>
        \A c, d \in DOMAIN gs_folds_used : gs_folds_used[c] = gs_folds_used[d]

\* the position of v in a sequence of distinct values
IdxOf(seq, v) == CHOOSE i \in DOMAIN seq : seq[i] = v

RECURSIVE ProdLen(_)
ProdLen(vals) ==
    IF vals = <<>> THEN 1 ELSE Len(Head(vals)) * ProdLen(Tail(vals))

\* combination a comes before b when, at the first parameter in which they
\* differ, a has the earlier value of that parameter's sequence
LexLess(a, b, vals) ==
    \E i \in DOMAIN vals :
        /\ \A j \in 1 .. (i - 1) : a[j] = b[j]
        /\ IdxOf(vals[i], a[i]) < IdxOf(vals[i], b[i])

\* C23: fit evaluates every combination of the Cartesian product of the
\* grid's value sequences exactly once: the combinations are as many as the
\* product of the lengths, each takes one value per parameter, they are in the
\* order in which the last parameter varies fastest, and the fold fits go
\* through them in that order, k folds each, on an estimator configured with
\* the combination.
C23_ProductOrder ==
    (engine = "gs" /\ gs_calls > 0) =>
        LET vals == param_values(param_grid)
            pc == param_combinations
        IN /\ Len(pc) = ProdLen(vals)
           /\ \A c \in DOMAIN pc :
                 /\ Len(pc[c]) = Len(vals)
                 /\ \A i \in DOMAIN vals :
                       \E j \in DOMAIN vals[i] : pc[c][i] = vals[i][j]
           /\ \A c, d \in DOMAIN pc : c < d => LexLess(pc[c], pc[d], vals)
           /\ \A j \in DOMAIN gs_trace :
                 gs_trace[j].ev = "fold" =>
                     LET c == gs_trace[j].c
                         e == heap[gs_trace[j].inst]
                     IN /\ c \in DOMAIN pc
                        /\ \A l \in 1 .. (j - 1) : gs_trace[l].c <= c
                        /\ \A i \in DOMAIN vals :
                              /\ param_grid[i][1] = "threshold"
                                    => e.threshold = pc[c][i]
                              /\ param_grid[i][1] = "memorize"
                                    => e.memorize = pc[c][i]
           /\ GsReturned =>
                 \A c \in DOMAIN pc :
                     \A f \in 1 .. gs_cv :
                         Cardinality({j \in DOMAIN gs_trace :
                                         /\ gs_trace[j].ev = "fold"
                                         /\ gs_trace[j].c = c
                                         /\ gs_trace[j].f = f}) = 1

C23_Witness ==
    /\ GsReturned
    /\ Len(param_grid) = 2
    /\ Len(param_combinations) = ProdLen(param_values(param_grid))
    /\ Len(param_combinations) > 3
    /\ param_combinations[2][1] = param_combinations[1][1]
    /\ param_combinations[2][2] # param_combinations[1][2]
    /\ Len(gs_folds_used) = Len(param_combinations)

\* column i of the meta-feature matrix has been written, or not at all
ColumnWritten(i) == \A r \in DOMAIN meta_src : meta_src[r][i] # None

ColumnUntouched(i) ==
    \A r \in DOMAIN meta_src :
        meta_src[r][i] = None /\ meta_features[r][i] = 0

\* the fold fits of base estimator i after which row r of oof_preds was set
WritesTo(i, r) ==
    {j \in OkFolds(st_trace, i) :
        r \in OofWriteRows(st_folds_used[i][st_trace[j].f])}

\* C24: when the fold loop of base estimator i has ended and its column is
\* stored, every row of column i was written exactly once, with the
\* prediction for that row of estimator i fitted on rows that exclude it; no
\* placeholder is left in it, the columns of the estimators before i are
\* written as well and those of the estimators after i are untouched.
C24_ColumnComplete ==
    (engine = "st" /\ base_estimators_ # None /\ st_calls > 0) =>
        \A i \in DOMAIN base_estimators_[1] :
            /\ ColumnWritten(i) \/ ColumnUntouched(i)
            /\ i < st_i => ColumnWritten(i)
            /\ (i = st_i /\ st_pc = "full") => ColumnWritten(i)
            /\ (i = st_i /\ st_pc = "fold") => ColumnUntouched(i)
            /\ i > st_i => ColumnUntouched(i)
            /\ ColumnWritten(i) =>
                  \A r \in DOMAIN meta_src :
                      /\ Cardinality(WritesTo(i, r)) = 1
                      /\ r \notin meta_src[r][i][1]
                      /\ meta_features[r][i] =
                            EstPredict(EstFit(heap[estimators[i]],
                                              meta_src[r][i][1], st_y), X(r))

C24_Witness ==
    /\ engine = "st"
    /\ st_pc = "full"
    /\ st_i = 2
    /\ ColumnWritten(1)
    /\ ColumnWritten(2)
    /\ \E r, q \in DOMAIN meta_features :
          meta_features[r][2] = 1 /\ meta_features[q][2] = 0
    /\ \E r \in DOMAIN meta_features : meta_features[r][1] # meta_features[r][2]

\* C25: the copies of a stacking fit call are separate objects, none of them
\* an object of the caller, also when an estimator is listed twice; and fitting
\* base estimator i changes no other: while i is being fitted every estimator
\* after it is still the unfitted copy of its prototype, every estimator
\* before it is as its own fit on the entire dataset left it, and the
\* meta-estimator is unfitted until its own fit.
C25_IndependentCopies ==
    (engine = "st" /\ base_estimators_ # None /\ st_calls > 0) =>
        LET ids == base_estimators_[1]
        IN /\ \A i, j \in DOMAIN ids : i # j => ids[i] # ids[j]
           /\ \A i \in DOMAIN ids :
                 ids[i] # final_estimator_ /\ ids[i] \notin Prototypes
           /\ final_estimator_ \notin Prototypes
           /\ \A j \in DOMAIN ids :
                 /\ j > st_i => heap[ids[j]] = heap[estimators[j]]
                 /\ j < st_i =>
                       heap[ids[j]] = EstFit(heap[estimators[j]],
                                             Rows(Len(st_y)), st_y)
           /\ st_result # "ok" =>
                 heap[final_estimator_] = heap[final_estimator]

C25_Witness ==
    /\ engine = "st"
    /\ estimators = <<2, 2>>
    /\ st_pc = "fold"
    /\ st_i = 2
    /\ heap[base_estimators_[1][2]].fitted
    /\ heap[base_estimators_[1][2]].train # Rows(Len(st_y))
    /\ heap[base_estimators_[1][1]].train = Rows(Len(st_y))

\* C26: after any grid-search fit call that returns, a second call on the
\* same object included, best_params_ is a candidate of that call, best_score_
\* is its mean cross-validated score on that call's dataset, and
\* best_estimator_ is configured with it and fitted on that call's dataset.
C26_BestOfThisCall ==
    (GsReturned /\ Candidates # <<>>) =>
        /\ best_estimator_ # 0
        /\ \E c \in DOMAIN Candidates :
              /\ best_params_ = Some(CandidateParams(c))
              /\ best_score_ = MeanCvScore(c)
              /\ heap[best_estimator_] =
                    EstFit(set_params(clone(heap[SelfEstimator]),
                                      CandidateParams(c)),
                           Rows(Len(gs_y)), gs_y)

\* C27: whenever fit on a fresh grid-search object returns without raising,
\* at least one candidate has been evaluated and best_estimator_ is set, so
\* that a following predict or score does not fail as not fitted; for every
\* grid, one with an empty value sequence included.
C27_ReturnMeansFitted ==
    (GsReturned /\ gs_calls = 1) =>
        /\ gs_folds_used # <<>>
        /\ best_estimator_ # 0
        /\ gs_out.op \in {"predict", "score"} => gs_out.res = "ok"

\* C28: whenever a grid-search fit call has returned or raised and
\* best_estimator_ is set, the most recent fit call on that object was a fit
\* on the entire dataset that completed; predict never delegates to an object
\* whose last completed fit was on the training rows of a fold.
C28_BestFittedOnAll ==
    (engine = "gs" /\ gs_pc = "idle" /\ gs_calls > 0
        /\ best_estimator_ # 0) =>
        /\ heap[best_estimator_].fitted
        /\ heap[best_estimator_].train = Rows(Len(gs_y))
        /\ \E j \in DOMAIN gs_trace :
              /\ gs_trace[j] = Event("full", gs_trace[j].c, 0,
                                     best_estimator_, TRUE)
              /\ \A l \in DOMAIN gs_trace :
                    gs_trace[l].inst = best_estimator_ => l <= j
        /\ gs_out.op = "predict" =>
              heap[gs_out.inst].train = Rows(Len(gs_y))

\* C29: in every step of a grid-search fit call, a second call on the same
\* object included, best_score_ does not decrease, and best_score_,
\* best_params_ and best_estimator_ change only together, at the end of a
\* candidate whose mean score is strictly greater than best_score_; they
\* become that mean, the candidate's parameters and its estimator, and the new
\* best_score_ is the highest mean of the candidates evaluated so far.
C29_MonotoneBest ==
    [][/\ best_score_' >= best_score_
       /\ (\/ best_score_' # best_score_
           \/ best_params_' # best_params_
           \/ best_estimator_' # best_estimator_) =>
             LET avg == Mean(scores, Len(gs_y))
             IN /\ gs_pc = "fold"
                /\ gs_folds = <<>>
                /\ avg > best_score_
                /\ avg = MeanCvScore(gs_ci)
                /\ best_score_' = avg
                /\ best_params_' = Some(CandidateParams(gs_ci))
                /\ best_estimator_' = gs_estimator
                /\ best_estimator_' # best_estimator_
                /\ gs_calls = 1 => best_params_' # best_params_
                /\ \A c \in 1 .. gs_ci : MeanCvScore(c) <= best_score_'
      ]_vars

C29_Witness ==
    /\ engine = "gs"
    /\ gs_calls = 2
    /\ gs_pc = "refit"
    /\ gs_ci > 1
    /\ best_score_ = MeanCvScore(gs_ci)
    /\ best_score_ > MeanCvScore(1)

\* what fit on a newly constructed MyStackingClassifier computes on the
\* labels y: the folds of the seed, and for row r and position i the
\* prediction of the prototype of position i fitted on the training rows of
\* the fold that validates r
FreshFolds == KFoldSplit(kf_perm, st_cv)

FreshMetaFeatures(y) ==
    [r \in Rows(Len(y)) |->
        [i \in DOMAIN estimators |->
            LET f == CHOOSE g \in DOMAIN FreshFolds : r \in FreshFolds[g].valid
            IN EstPredict(EstFit(heap[estimators[i]],
                                 FreshFolds[f].train, y), X(r))]]

\* C30: after a second stacking fit call on the same object has returned,
\* the fitted state is that of a fit on a newly constructed object with the
\* same configuration on the second call's dataset: the base estimators and
\* the meta-estimator are objects made in this call from the caller's
\* prototypes, fitted on this call's dataset and meta-features, and predict
\* gives what it gives after such a fit.
C30_SecondFitAsFresh ==
    (engine = "st" /\ st_calls = 2 /\ st_pc = "idle" /\ st_result = "ok") =>
        LET ids == base_estimators_[1]
            m == Len(estimators)
        IN /\ Len(ids) = m
           /\ \A i \in DOMAIN ids :
                 /\ ids[i] = Len(heap) - (m + 1) + i
                 /\ heap[ids[i]] = EstFit(heap[estimators[i]],
                                          Rows(Len(st_y)), st_y)
           /\ final_estimator_ = Len(heap)
           /\ meta_features = FreshMetaFeatures(st_y)
           /\ heap[final_estimator_] =
                 MetaFit(heap[final_estimator], FreshMetaFeatures(st_y), st_y)
           /\ st_folds_used = [i \in DOMAIN estimators |-> FreshFolds]
           /\ st_out.op = "predict" =>
                 /\ st_out.res = "ok"
                 /\ st_out.val =
                       [r \in DOMAIN st_out.arg |->
                           MetaPredict(heap[final_estimator_],
                               [i \in DOMAIN estimators |->
                                   EstPredict(EstFit(heap[estimators[i]],
                                                     Rows(Len(st_y)), st_y),
                                              st_out.arg[r])])]

C30_Witness ==
    /\ engine = "st"
    /\ st_calls = 2
    /\ st_pc = "idle"
    /\ st_result = "ok"
    /\ st_out.op = "predict"
    /\ \E i \in DOMAIN heap :
          /\ i < base_estimators_[1][1]
          /\ heap[i].kind = "base"
          /\ heap[i].fitted
          /\ heap[i].y # st_y
    /\ \E i \in DOMAIN heap :
          /\ i < base_estimators_[1][1]
          /\ heap[i].kind = "meta"
          /\ heap[i].fitted
          /\ heap[i].y # st_y
    /\ \E r \in DOMAIN st_out.val : st_out.val[r] # st_y[r]

====
